---------------------------- MODULE Spec2Model ----------------------------
(***************************************************************************)
(* A model of the facility calendar application of src/index.tsx: the App  *)
(* component's state (events, requests, session role, tabs, modals), the   *)
(* request lifecycle handlers, the edit modal, and the CalendarView's      *)
(* grid projection and filter.                                             *)
(*                                                                         *)
(* Time.  A JavaScript Date is an instant; the model counts it in whole    *)
(* hours since 1970-01-01T00:00Z.  The local time zone is a fixed offset   *)
(* `tz` of whole hours (local = UTC + tz), chosen when the page loads.     *)
(* The last instant of a day (23:59:59.999) is hour 23 of that day.        *)
(***************************************************************************)
EXTENDS Integers, Sequences, FiniteSets, TLC

VARIABLES
    \* ---- App state (src/index.tsx 819-835)
    currentDate,        \* Date shown by the calendar
    events,             \* CalendarEvent[]
    requests,           \* Request[]  (the pending collection)
    userRole,           \* "viewer" | "admin"
    activeTab,          \* "calendar" | "admin"
    showRequestModal,
    editingEvent,       \* CalendarEvent | null
    showLoginModal,
    loginPassword,
    filters,            \* FilterState
    \* ---- environment
    tz,                 \* UTC offset of the local time zone, in hours
    \* ---- bookkeeping used to state the properties
    nextRef,            \* number of Request objects allocated so far
    edits,              \* number of edits saved so far
    resolved,           \* <<ref, decision>> of the requests approved or rejected
    lastOp,             \* the handler that ran last, with its argument
    \* ---- AdminPanel and the AI service
    adminPanel,         \* AdminPanel's own state: aiQuery, aiResponse, loading
    aiCalls,            \* the calls of ai.models.generateContent in flight
    aiClient,           \* const ai: TRUE iff getAiClient() found an API key
    \* ---- the page
    mountedApp          \* which of the file's two definitions of App is mounted

appVars == <<currentDate, events, requests, userRole, activeTab,
             showRequestModal, editingEvent, showLoginModal, loginPassword,
             filters>>
vars == <<currentDate, events, requests, userRole, activeTab,
          showRequestModal, editingEvent, showLoginModal, loginPassword,
          filters, tz, nextRef, edits, resolved, lastOp,
          adminPanel, aiCalls, aiClient, mountedApp>>

-----------------------------------------------------------------------------
(* Bounds of the model *)

\* Requests submitted in one run.
MaxSubmit == 2
\* Edits saved in one run.
MaxEdits == 1
\* First year and number of years the calendar view is checked for.
FirstYear == 2024
NumYears == 3

Null == [null |-> TRUE]
Undefined == "undefined"

Categories == {"Maintenance", "Cleaning", "Event"}
Floors == 1..6
\* Strings Math.random().toString(36).substr(2, 9) may return.
Ids == {"k3x9q0a1b", "q7m2z8c4d"}
\* UTC offsets of the local time zone, in hours.
TimeZones == {-5, 10}

-----------------------------------------------------------------------------
(* Sequence helpers *)

Range(s) == {s[i] : i \in 1..Len(s)}

Slice(s, from, to) ==
    \* s.slice(from, to): zero-based, `to` exclusive, clipped to the length
    SubSeq(s, from + 1, IF to < Len(s) THEN to ELSE Len(s))

-----------------------------------------------------------------------------
(* Calendar arithmetic of the Date object *)

\* Days from 1970-01-01 to the civil date y-m-d (m in 1..12).
DaysFromCivil(y, m, d) ==
    LET yy  == IF m <= 2 THEN y - 1 ELSE y
        era == yy \div 400
        yoe == yy - era * 400
        mp  == IF m > 2 THEN m - 3 ELSE m + 9
        doy == (153 * mp + 2) \div 5 + d - 1
        doe == yoe * 365 + yoe \div 4 - yoe \div 100 + doy
    IN  era * 146097 + doe - 719468

\* The civil date <<y, m, d>> of day number z.
CivilFromDays(z) ==
    LET zz  == z + 719468
        era == zz \div 146097
        doe == zz - era * 146097
        yoe == (doe - doe \div 1460 + doe \div 36524 - doe \div 146096) \div 365
        doy == doe - (365 * yoe + yoe \div 4 - yoe \div 100)
        mp  == (5 * doy + 2) \div 153
        d   == doy - (153 * mp + 2) \div 5 + 1
        m   == IF mp < 10 THEN mp + 3 ELSE mp - 9
        y   == yoe + era * 400 + (IF m <= 2 THEN 1 ELSE 0)
    IN  <<y, m, d>>

\* new Date("YYYY-MM-DD"): a date-only string is parsed as UTC midnight.
ParseDateOnly(c) == DaysFromCivil(c[1], c[2], c[3]) * 24

\* new Date(y, monthIndex, d, h): local time; month and day overflow carry.
LocalDate(y, monthIndex, d, h) ==
    (DaysFromCivil(y + monthIndex \div 12, (monthIndex % 12) + 1, 1) + d - 1) * 24
        + h - tz

\* The local day number, the local hour and the local civil date of instant t.
LocalDay(t) == (t + tz) \div 24
LocalHour(t) == (t + tz) % 24
LocalCivil(t) == CivilFromDays(LocalDay(t))
getFullYear(t) == LocalCivil(t)[1]
getMonth(t) == LocalCivil(t)[2] - 1
getDate(t) == LocalCivil(t)[3]
\* getDay(): 0 is Sunday; 1970-01-01 was a Thursday.
getDay(t) == (LocalDay(t) + 4) % 7

\* date.toISOString().split('T')[0]: the UTC civil date.
ISODate(t) == CivilFromDays(t \div 24)

\* Local midnight of local day number n.
MidnightOf(n) == n * 24 - tz

\* date-fns helpers (all in local time)
startOfDay(t) == MidnightOf(LocalDay(t))
endOfDay(t) == MidnightOf(LocalDay(t)) + 23
setHours(t, h) == MidnightOf(LocalDay(t)) + h
isSameDay(a, b) == startOfDay(a) = startOfDay(b)
\* (mutant) the month start is taken to be the reference day itself
startOfMonth_SameDay(t) == MidnightOf(LocalDay(t))
startOfMonth(t) == LocalDate(getFullYear(t), getMonth(t), 1, 0)
endOfMonth(t) == LocalDate(getFullYear(t), getMonth(t) + 1, 0, 23)
\* (mutant) weeks start on Monday
startOfWeek_Monday(t) == MidnightOf(LocalDay(t) - ((getDay(t) + 6) % 7))
startOfWeek(t) == MidnightOf(LocalDay(t) - getDay(t))
endOfWeek(t) == MidnightOf(LocalDay(t) + (6 - getDay(t))) + 23
startOfYear(t) == LocalDate(getFullYear(t), 0, 1, 0)
addWeeks(t, n) == t + n * 7 * 24

RECURSIVE DaysFrom(_, _)
DaysFrom(cur, endTime) ==
    IF cur > endTime THEN <<>>
    ELSE <<cur>> \o DaysFrom(MidnightOf(LocalDay(cur) + 1), endTime)

\* eachDayOfInterval({start, end}): local midnights from start's day while <= end
eachDayOfInterval(start, end) == DaysFrom(startOfDay(start), end)

-----------------------------------------------------------------------------
(* Data model (src/index.tsx 19-54) *)

\* A CalendarEvent.  An absent description is Undefined; an absent
\* isRecurring is FALSE.
Event(id, title, start, end, category, floor, room, description, isRecurring) ==
    [id |-> id, title |-> title, start |-> start, end |-> end,
     category |-> category, floor |-> floor, room |-> room,
     description |-> description, isRecurring |-> isRecurring]

\* const generateId = () => Math.random().toString(36).substr(2, 9):
\* any string of the id space may come out, also one drawn before.
generateId == Ids

createEvent(title, date, category, floor, room, id) ==
    LET start == setHours(date, 9)
        end   == setHours(start, 9 + 1)
    IN  Event(id, title, start, end, category, floor, room, Undefined, TRUE)

\* Date.prototype.setDate(d) on local instant t
setDate(t, d) == LocalDate(getFullYear(t), getMonth(t), d, LocalHour(t))

\* One iteration of the weekly loop on `current`: the Monday computation and
\* current.setDate(diff), which moves the Date object itself.
WeeklyStep(cur) ==
    LET day  == getDay(cur)
        diff == getDate(cur) - day + (IF day = 0 THEN -6 ELSE 1)
    IN  setDate(cur, diff)

\* `current` is the same object as `yearStart` (let current = yearStart), so
\* the loop moves yearStart too: its value after n iterations, WeeklyStep
\* applied n times.  (The iterations are split in halves, and the singleton
\* sets make TLC finish one half before it starts the other.)
RECURSIVE YearStartAfter(_, _)
YearStartAfter(ys, n) ==
    IF n = 0 THEN ys
    ELSE IF n = 1 THEN WeeklyStep(ys)
    ELSE CHOOSE w \in {YearStartAfter(half, n - n \div 2) :
                          half \in {YearStartAfter(ys, n \div 2)}} : TRUE

NumWeeks == 52

\* The fixed-date pushes after the monthly cleaning loop, in source order:
\* <<title, monthIndex, day, category, floor, room>>.
FixedRules ==
    << <<"Exterior Power Washing", 7, 20, "Cleaning", 1, "Exterior">>,
       <<"CTeen Jr Kickoff", 7, 24, "Event", 6, "Rooftop Lounge">>,
       <<"Chanukah Parade (CTeen)", 11, 14, "Event", 1, "Garage/Street">>,
       <<"Purim Party (CTeen)", 2, 1, "Event", 2, "Sanctuary">>,
       <<"BMC Orientation", 8, 2, "Event", 3, "Offices/Conf Room">>,
       <<"BMC Challah Bake", 10, 4, "Event", 2, "Sanctuary Hall">>,
       <<"BMC Gala", 4, 12, "Event", 6, "Rooftop Ballroom">>,
       <<"Hebrew School Opening", 8, 7, "Event", 4, "Classrooms">>,
       <<"Family Chanukah Party", 11, 21, "Event", 2, "Sanctuary">>,
       <<"Rosh Hashana - Fabric Cleaning", 8, 15, "Cleaning", 2, "Sanctuary">>,
       <<"Sukkah Build", 8, 29, "Maintenance", 1, "Courtyard">>,
       <<"Pesach Chametz Deep Clean", 3, 10, "Cleaning", 6, "Kitchen/All Floors">> >>

\* (mutant) the months are counted from 1: February 15 and August 15
BackflowRules_MonthsFromOne(year) ==
    << <<"Backflow Inspection", LocalDate(year, 1, 15, 0), "Maintenance", 1, "Garage/Main Line">>,
       <<"Backflow Inspection", LocalDate(year, 7, 15, 0), "Maintenance", 1, "Garage/Main Line">> >>

\* The two semiannual pushes (src/index.tsx 90-91), as createEvent arguments.
BackflowRules(year) ==
    << <<"Backflow Inspection", LocalDate(year, 0, 15, 0), "Maintenance", 1, "Garage/Main Line">>,
       <<"Backflow Inspection", LocalDate(year, 6, 15, 0), "Maintenance", 1, "Garage/Main Line">> >>

\* Number of events generateInitialData pushes: 2 + 2*12 + 52 + 4 + 12 + 12.
NumSeeds == 2 + 24 + NumWeeks + 4 + 12 + Len(FixedRules)

\* The i-th push of generateInitialData run at instant `now`, as the
\* arguments <<title, date, category, floor, room>> of createEvent.
SeedRule(now, i) ==
    LET yearStart == startOfYear(now)
        year == getFullYear(yearStart)
        k == i - 26
        q == i - 26 - NumWeeks
        c == i - 30 - NumWeeks
        x == i - 42 - NumWeeks
    IN  IF i <= 2 THEN BackflowRules(year)[i]
        ELSE IF i <= 26 THEN
            IF i % 2 = 1
            THEN <<"Aroma System Check", LocalDate(year, (i - 3) \div 2, 1, 0),
                   "Maintenance", 2, "Lobby/Sanctuary">>
            ELSE <<"Elevator Maintenance (Eastern)", LocalDate(year, (i - 3) \div 2, 5, 0),
                   "Maintenance", 1, "All Floors">>
        ELSE IF k <= NumWeeks THEN
            <<"Chiller Inspection", addWeeks(YearStartAfter(yearStart, k), k - 1),
              "Maintenance", 6, "Rooftop">>
        ELSE IF q <= 4 THEN
            <<"Grease Tank/Hood Clean (Yanky)", LocalDate(year, 3 * (q - 1), 10, 0),
              "Maintenance", 6, "Kitchen">>
        ELSE IF c <= 12 THEN
            <<"Carpet Deep Clean", LocalDate(year, c - 1, 15, 0), "Cleaning", 2, "Sanctuary">>
        ELSE
            <<FixedRules[x][1], LocalDate(year, FixedRules[x][2], FixedRules[x][3], 0),
              FixedRules[x][4], FixedRules[x][5], FixedRules[x][6]>>

\* generateInitialData(), run at instant `now`; ids[i] is the id that
\* generateId() returns for the i-th event.
generateInitialData(now, ids) ==
    [i \in 1..NumSeeds |->
        LET rule == SeedRule(now, i)
        IN  createEvent(rule[1], rule[2], rule[3], rule[4], rule[5], ids[i])]

-----------------------------------------------------------------------------
(* CalendarView (src/index.tsx 552-702) *)

\* No floor filter: the code's null.
NoFloor == 0

\* (mutant) the floor test is skipped for events of a shown category
isVisible_FloorIgnored(e, f) ==
    IF ~f.showMaintenance /\ e.category = "Maintenance" THEN FALSE
    ELSE IF ~f.showCleaning /\ e.category = "Cleaning" THEN FALSE
    ELSE IF ~f.showEvents /\ e.category = "Event" THEN FALSE
    ELSE TRUE

\* The predicate of filteredEvents: a floor of null (no filter) is falsy.
isVisible(e, f) ==
    IF ~f.showMaintenance /\ e.category = "Maintenance" THEN FALSE
    ELSE IF ~f.showCleaning /\ e.category = "Cleaning" THEN FALSE
    ELSE IF ~f.showEvents /\ e.category = "Event" THEN FALSE
    ELSE IF f.floor # NoFloor /\ e.floor # f.floor THEN FALSE
    ELSE TRUE

filteredEvents(evs, f) ==
    LET keep(e) == isVisible(e, f) IN SelectSeq(evs, keep)

\* const days = eachDayOfInterval({ start: startDate, end: endDate })
days(cur) ==
    LET monthStart == startOfMonth(cur)
        monthEnd   == endOfMonth(monthStart)
        startDate  == startOfWeek(monthStart)
        endDate    == endOfWeek(monthEnd)
    IN  eachDayOfInterval(startDate, endDate)

\* (mutant) the bucket lists the newest event first
dayEvents_NewestFirst(evs, f, day) ==
    LET same(e) == isSameDay(e.start, day)
        b == SelectSeq(filteredEvents(evs, f), same)
    IN  [i \in 1..Len(b) |-> b[Len(b) + 1 - i]]

\* const dayEvents = filteredEvents.filter(e => isSameDay(e.start, day))
dayEvents(evs, f, day) ==
    LET same(e) == isSameDay(e.start, day) IN SelectSeq(filteredEvents(evs, f), same)

\* The grid body: days.map(day => ...) with the bucket of each day
\* (src/index.tsx 653-654).
Grid(cur, f, evs) ==
    LET g == days(cur)
    IN  [i \in 1..Len(g) |-> [date |-> g[i], bucket |-> dayEvents(evs, f, g[i])]]

\* dayEvents.slice(0, 4)
MaxShown == 4

\* (mutant) the remainder line is rendered from four events on
CellView_FromFour(bucket) ==
    [shown |-> Slice(bucket, 0, MaxShown),
     hasMore |-> Len(bucket) >= MaxShown,
     more |-> Len(bucket) - MaxShown]

\* What a day cell renders of its bucket (src/index.tsx 673-694): the chips
\* of dayEvents.slice(0, 4) and, when dayEvents.length > 4, the line
\* "+ {dayEvents.length - 4} more".
CellView(bucket) ==
    [shown |-> Slice(bucket, 0, MaxShown),
     hasMore |-> Len(bucket) > MaxShown,
     more |-> Len(bucket) - MaxShown]

DefaultFilters ==
    [showMaintenance |-> TRUE, showCleaning |-> TRUE, showEvents |-> TRUE,
     floor |-> NoFloor]

\* The years the calendar view is checked for.
Years == FirstYear..(FirstYear + NumYears - 1)

\* (mutant) the day of the month is carried over to the next month
NextMonthDate_KeepsDay(cur) ==
    LocalDate(getFullYear(cur), getMonth(cur) + 1, getDate(cur), 0)

\* new Date(currentDate.getFullYear(), currentDate.getMonth() + 1): the day
\* defaults to 1 and the time to local midnight.
NextMonthDate(cur) == LocalDate(getFullYear(cur), getMonth(cur) + 1, 1, 0)

\* new Date(currentDate.getFullYear(), currentDate.getMonth() - 1)
PrevMonthDate(cur) == LocalDate(getFullYear(cur), getMonth(cur) - 1, 1, 0)

nextMonth ==
    /\ activeTab = "calendar"
    /\ currentDate' = NextMonthDate(currentDate)
    /\ getFullYear(currentDate') \in Years
    /\ UNCHANGED <<events, requests, userRole, activeTab, showRequestModal,
                   editingEvent, showLoginModal, loginPassword, filters, tz, adminPanel, aiCalls, aiClient, mountedApp,
                   nextRef, edits, resolved, lastOp>>

prevMonth ==
    /\ activeTab = "calendar"
    /\ currentDate' = PrevMonthDate(currentDate)
    /\ getFullYear(currentDate') \in Years
    /\ UNCHANGED <<events, requests, userRole, activeTab, showRequestModal,
                   editingEvent, showLoginModal, loginPassword, filters, tz, adminPanel, aiCalls, aiClient, mountedApp,
                   nextRef, edits, resolved, lastOp>>

\* The instants new Date() may return: 15:00 UTC of a day of the years.
Clock ==
    {d * 24 + 15 : d \in DaysFromCivil(FirstYear, 1, 1)
                          .. (DaysFromCivil(FirstYear + NumYears, 1, 1) - 1)}

today ==
    /\ activeTab = "calendar"
    /\ currentDate' \in Clock
    /\ UNCHANGED <<events, requests, userRole, activeTab, showRequestModal,
                   editingEvent, showLoginModal, loginPassword, filters, tz, adminPanel, aiCalls, aiClient, mountedApp,
                   nextRef, edits, resolved, lastOp>>

\* onFilterChange({...filters, floor: e.target.value ? Number(...) : null})
setFloorFilter ==
    /\ activeTab = "calendar"
    /\ \E fl \in Floors \cup {NoFloor} : filters' = [filters EXCEPT !.floor = fl]
    /\ UNCHANGED <<currentDate, events, requests, userRole, activeTab,
                   showRequestModal, editingEvent, showLoginModal, loginPassword,
                   tz, adminPanel, aiCalls, aiClient, mountedApp, nextRef, edits, resolved, lastOp>>

toggleMaintenance ==
    /\ activeTab = "calendar"
    /\ filters' = [filters EXCEPT !.showMaintenance = ~filters.showMaintenance]
    /\ UNCHANGED <<currentDate, events, requests, userRole, activeTab,
                   showRequestModal, editingEvent, showLoginModal, loginPassword,
                   tz, adminPanel, aiCalls, aiClient, mountedApp, nextRef, edits, resolved, lastOp>>

toggleCleaning ==
    /\ activeTab = "calendar"
    /\ filters' = [filters EXCEPT !.showCleaning = ~filters.showCleaning]
    /\ UNCHANGED <<currentDate, events, requests, userRole, activeTab,
                   showRequestModal, editingEvent, showLoginModal, loginPassword,
                   tz, adminPanel, aiCalls, aiClient, mountedApp, nextRef, edits, resolved, lastOp>>

toggleEvents ==
    /\ activeTab = "calendar"
    /\ filters' = [filters EXCEPT !.showEvents = ~filters.showEvents]
    /\ UNCHANGED <<currentDate, events, requests, userRole, activeTab,
                   showRequestModal, editingEvent, showLoginModal, loginPassword,
                   tz, adminPanel, aiCalls, aiClient, mountedApp, nextRef, edits, resolved, lastOp>>

-----------------------------------------------------------------------------
(* Forms *)

\* What a guest types into the request form (the date as <<y, m, d>>).
FormSamples ==
    { [title |-> "Fix AC", date |-> <<2025, 3, 10>>, category |-> "Maintenance",
       floor |-> 3, room |-> "Offices", description |-> "too warm"] }

\* What an admin may retype in the edit modal.
EditSamples ==
    { [title |-> "Gala", date |-> <<2025, 12, 31>>, category |-> "Event",
       floor |-> 6, room |-> "Rooftop", description |-> ""] }

\* RequestForm.handleSubmit: onSubmit({...formData, date: new Date(formData.date)})
RequestFormSubmit(formData) ==
    [formData EXCEPT !.date = ParseDateOnly(formData.date)]

\* The initial formData of EditEventModal.
EditFormData(event) ==
    [title |-> event.title,
     date |-> ISODate(event.start),
     category |-> event.category,
     floor |-> event.floor,
     room |-> event.room,
     description |-> IF event.description \in {Undefined, ""} THEN ""
                     ELSE event.description]

\* (mutant) the end hour is set on the day before the start
EditFormSubmit_EndsDayBefore(event, formData) ==
    LET start == LocalDate(formData.date[1], formData.date[2] - 1, formData.date[3], 9)
        end   == LocalDate(formData.date[1], formData.date[2] - 1, formData.date[3] - 1, 10)
    IN  [event EXCEPT !.title = formData.title, !.start = start, !.end = end,
                      !.category = formData.category, !.floor = formData.floor,
                      !.room = formData.room, !.description = formData.description]

\* EditEventModal.handleSubmit: the event handed to onSave.
EditFormSubmit(event, formData) ==
    LET start == LocalDate(formData.date[1], formData.date[2] - 1, formData.date[3], 9)
        end   == setHours(start, 10)
    IN  [event EXCEPT !.title = formData.title, !.start = start, !.end = end,
                      !.category = formData.category, !.floor = formData.floor,
                      !.room = formData.room, !.description = formData.description]

\* The form contents the admin may save: untouched, or retyped from a sample.
EditForms(event) == {EditFormData(event)} \cup EditSamples

-----------------------------------------------------------------------------
(* App handlers (src/index.tsx 843-911) *)

Other == [op |-> "other"]

\* AdminPanel's useState values at mount (src/index.tsx 712-714); a null
\* aiResponse is NoResponse.
NoResponse == "null"
PanelInit == [aiQuery |-> "", aiResponse |-> NoResponse, loading |-> FALSE]

\* The App renders AdminPanel only while activeTab is not 'calendar'
\* (src/index.tsx 980-996).  When the step leaves that tab the component is
\* unmounted: its state is gone (a later mount starts from PanelInit) and
\* the calls it started go on without a component to report to.
UnmountAdminPanel ==
    IF activeTab # "calendar" /\ activeTab' = "calendar"
    THEN /\ adminPanel' = PanelInit
         /\ aiCalls' = [i \in 1..Len(aiCalls) |-> [aiCalls[i] EXCEPT !.mounted = FALSE]]
    ELSE UNCHANGED <<adminPanel, aiCalls>>

Passwords == {"admin123", "letmein"}

\* Staff Login button (shown to viewers)
openLoginModal ==
    /\ userRole = "viewer"
    /\ showLoginModal' = TRUE
    /\ lastOp' = Other
    /\ UNCHANGED <<currentDate, events, requests, userRole, activeTab,
                   showRequestModal, editingEvent, loginPassword, filters, tz, adminPanel, aiCalls, aiClient, mountedApp,
                   nextRef, edits, resolved>>

closeLoginModal ==
    /\ showLoginModal
    /\ showLoginModal' = FALSE
    /\ lastOp' = Other
    /\ UNCHANGED <<currentDate, events, requests, userRole, activeTab,
                   showRequestModal, editingEvent, loginPassword, filters, tz, adminPanel, aiCalls, aiClient, mountedApp,
                   nextRef, edits, resolved>>

setLoginPassword ==
    /\ showLoginModal
    /\ \E p \in Passwords : loginPassword' = p
    /\ lastOp' = Other
    /\ UNCHANGED <<currentDate, events, requests, userRole, activeTab,
                   showRequestModal, editingEvent, showLoginModal, filters, tz, adminPanel, aiCalls, aiClient, mountedApp,
                   nextRef, edits, resolved>>

handleLogin ==
    /\ showLoginModal
    /\ IF loginPassword = "admin123"
       THEN /\ userRole' = "admin"
            /\ showLoginModal' = FALSE
            /\ loginPassword' = ""
       ELSE UNCHANGED <<userRole, showLoginModal, loginPassword>>
    /\ lastOp' = [op |-> "login", password |-> loginPassword]
    /\ UNCHANGED <<currentDate, events, requests, activeTab, showRequestModal,
                   editingEvent, filters, tz, adminPanel, aiCalls, aiClient, mountedApp, nextRef, edits, resolved>>

\* (mutant) logout resets the role alone
handleLogout_RoleOnly ==
    /\ userRole = "admin"
    /\ userRole' = "viewer"
    /\ lastOp' = [op |-> "logout"]
    /\ UNCHANGED <<currentDate, events, requests, activeTab, showRequestModal,
                   editingEvent, showLoginModal, loginPassword, filters, tz,
                   adminPanel, aiCalls, aiClient, mountedApp, nextRef, edits,
                   resolved>>

handleLogout ==
    /\ userRole = "admin"
    /\ userRole' = "viewer"
    /\ activeTab' = "calendar"
    /\ editingEvent' = Null
    /\ UnmountAdminPanel
    /\ lastOp' = [op |-> "logout"]
    /\ UNCHANGED <<currentDate, events, requests, showRequestModal,
                   showLoginModal, loginPassword, filters, tz, aiClient, mountedApp,
                   nextRef, edits, resolved>>

\* The tab buttons; Dashboard is rendered for admins only.
setActiveTab ==
    /\ \E t \in {"calendar", "admin"} :
          /\ t = "admin" => userRole = "admin"
          /\ activeTab' = t
    /\ UnmountAdminPanel
    /\ lastOp' = Other
    /\ UNCHANGED <<currentDate, events, requests, userRole, showRequestModal,
                   editingEvent, showLoginModal, loginPassword, filters, tz,
                   aiClient, mountedApp, nextRef, edits, resolved>>

openRequestModal ==
    /\ showRequestModal' = TRUE
    /\ lastOp' = Other
    /\ UNCHANGED <<currentDate, events, requests, userRole, activeTab,
                   editingEvent, showLoginModal, loginPassword, filters, tz, adminPanel, aiCalls, aiClient, mountedApp,
                   nextRef, edits, resolved>>

closeRequestModal ==
    /\ showRequestModal
    /\ showRequestModal' = FALSE
    /\ lastOp' = Other
    /\ UNCHANGED <<currentDate, events, requests, userRole, activeTab,
                   editingEvent, showLoginModal, loginPassword, filters, tz, adminPanel, aiCalls, aiClient, mountedApp,
                   nextRef, edits, resolved>>

\* The Request object built by handleSubmitRequest.  Two fields are
\* bookkeeping, which no handler reads: `ref`, the identity of the JavaScript
\* object, and `typed`, the calendar date typed in the form.
NewRequest(reqData, typed, id, ref) ==
    [id |-> id, title |-> reqData.title, date |-> reqData.date,
     category |-> reqData.category, floor |-> reqData.floor,
     room |-> reqData.room, description |-> reqData.description,
     status |-> "pending", submittedBy |-> "Guest User",
     ref |-> ref, typed |-> typed]

handleSubmitRequest(formData, id) ==
    LET newRequest == NewRequest(RequestFormSubmit(formData), formData.date, id, nextRef + 1)
    IN  /\ showRequestModal
        /\ nextRef < MaxSubmit
        /\ requests' = <<newRequest>> \o requests
        /\ showRequestModal' = FALSE
        /\ nextRef' = nextRef + 1
        /\ lastOp' = [op |-> "submit", req |-> newRequest]
        /\ UNCHANGED <<currentDate, events, userRole, activeTab, editingEvent,
                       showLoginModal, loginPassword, filters, tz, adminPanel, aiCalls, aiClient, mountedApp, edits, resolved>>

\* (mutant) the approved event gets the 9 AM working-hours slot of createEvent
ApprovedEvent_NineAM(req) ==
    Event(req.id, req.title, setHours(req.date, 9), setHours(req.date, 10),
          req.category, req.floor, req.room, req.description, FALSE)

\* The CalendarEvent handleApproveRequest builds from a request.
ApprovedEvent(req) ==
    Event(req.id, req.title, req.date, req.date, req.category, req.floor,
          req.room, req.description, FALSE)

\* prev.filter(r => r.id !== req.id)
WithoutId(reqs, id) ==
    LET keep(r) == r.id # id IN SelectSeq(reqs, keep)

\* (mutant) the request is promoted but stays in the pending collection
handleApproveRequest_KeepsPending(req) ==
    /\ activeTab = "admin"
    /\ events' = Append(events, ApprovedEvent(req))
    /\ resolved' = resolved \cup {<<req.ref, "approved">>}
    /\ lastOp' = [op |-> "approve", req |-> req]
    /\ UNCHANGED <<currentDate, requests, userRole, activeTab, showRequestModal,
                   editingEvent, showLoginModal, loginPassword, filters, tz, adminPanel, aiCalls, aiClient, mountedApp,
                   nextRef, edits>>

handleApproveRequest(req) ==
    /\ activeTab = "admin"
    /\ events' = Append(events, ApprovedEvent(req))
    /\ requests' = WithoutId(requests, req.id)
    /\ resolved' = resolved \cup {<<req.ref, "approved">>}
    /\ lastOp' = [op |-> "approve", req |-> req]
    /\ UNCHANGED <<currentDate, userRole, activeTab, showRequestModal,
                   editingEvent, showLoginModal, loginPassword, filters, tz, adminPanel, aiCalls, aiClient, mountedApp,
                   nextRef, edits>>

\* (mutant) the rejected request is kept, marked with the decision
handleRejectRequest_MarksRejected(req, confirmed) ==
    /\ activeTab = "admin"
    /\ IF confirmed
       THEN /\ requests' = [i \in 1..Len(requests) |->
                               IF requests[i].id = req.id
                               THEN [requests[i] EXCEPT !.status = "rejected"]
                               ELSE requests[i]]
            /\ resolved' = resolved \cup {<<req.ref, "rejected">>}
       ELSE UNCHANGED <<requests, resolved>>
    /\ lastOp' = [op |-> "reject", req |-> req, confirmed |-> confirmed]
    /\ UNCHANGED <<currentDate, events, userRole, activeTab, showRequestModal,
                   editingEvent, showLoginModal, loginPassword, filters, tz, adminPanel, aiCalls, aiClient, mountedApp,
                   nextRef, edits>>

\* (mutant) the request is removed without waiting for the confirmation
handleRejectRequest_NoConfirm(req, confirmed) ==
    /\ activeTab = "admin"
    /\ requests' = WithoutId(requests, req.id)
    /\ resolved' = resolved \cup {<<req.ref, "rejected">>}
    /\ lastOp' = [op |-> "reject", req |-> req, confirmed |-> confirmed]
    /\ UNCHANGED <<currentDate, events, userRole, activeTab, showRequestModal,
                   editingEvent, showLoginModal, loginPassword, filters, tz, adminPanel, aiCalls, aiClient, mountedApp,
                   nextRef, edits>>

\* `confirmed` is the answer to confirm('Reject this request?').
handleRejectRequest(req, confirmed) ==
    /\ activeTab = "admin"
    /\ IF confirmed
       THEN /\ requests' = WithoutId(requests, req.id)
            /\ resolved' = resolved \cup {<<req.ref, "rejected">>}
       ELSE UNCHANGED <<requests, resolved>>
    /\ lastOp' = [op |-> "reject", req |-> req, confirmed |-> confirmed]
    /\ UNCHANGED <<currentDate, events, userRole, activeTab, showRequestModal,
                   editingEvent, showLoginModal, loginPassword, filters, tz, adminPanel, aiCalls, aiClient, mountedApp,
                   nextRef, edits>>

\* A click on an event of the grid: no modal covers the calendar.
handleEventClick(event) ==
    /\ activeTab = "calendar"
    /\ editingEvent = Null /\ ~showLoginModal /\ ~showRequestModal
    /\ IF userRole = "admin"
       THEN editingEvent' = event
       ELSE UNCHANGED editingEvent
    /\ lastOp' = Other
    /\ UNCHANGED <<currentDate, events, requests, userRole, activeTab,
                   showRequestModal, showLoginModal, loginPassword, filters, tz, adminPanel, aiCalls, aiClient, mountedApp,
                   nextRef, edits, resolved>>

\* (mutant) the saved event is moved to the front of the collection
handleUpdateEvent_MovesToFront(updatedEvent) ==
    /\ edits < MaxEdits
    /\ events' = <<updatedEvent>> \o
                     SelectSeq(events, LAMBDA e : e.id # updatedEvent.id)
    /\ editingEvent' = Null
    /\ edits' = edits + 1
    /\ lastOp' = [op |-> "save", ev |-> updatedEvent]
    /\ UNCHANGED <<currentDate, requests, userRole, activeTab, showRequestModal,
                   showLoginModal, loginPassword, filters, tz, adminPanel, aiCalls, aiClient, mountedApp, nextRef, resolved>>

handleUpdateEvent(updatedEvent) ==
    /\ edits < MaxEdits
    /\ events' = [i \in 1..Len(events) |->
                     IF events[i].id = updatedEvent.id THEN updatedEvent
                     ELSE events[i]]
    /\ editingEvent' = Null
    /\ edits' = edits + 1
    /\ lastOp' = [op |-> "save", ev |-> updatedEvent]
    /\ UNCHANGED <<currentDate, requests, userRole, activeTab, showRequestModal,
                   showLoginModal, loginPassword, filters, tz, adminPanel, aiCalls, aiClient, mountedApp, nextRef, resolved>>

\* prev.filter(e => e.id !== eventId)
WithoutEventId(evs, id) ==
    LET keep(e) == e.id # id IN SelectSeq(evs, keep)

handleDeleteEvent(eventId) ==
    /\ events' = WithoutEventId(events, eventId)
    /\ editingEvent' = Null

\* The Delete button of the edit modal; `confirmed` is the answer to confirm().
EditModalDelete(confirmed) ==
    /\ editingEvent # Null
    /\ IF confirmed
       THEN handleDeleteEvent(editingEvent.id)
       ELSE UNCHANGED <<events, editingEvent>>
    /\ lastOp' = [op |-> "delete", ev |-> editingEvent, confirmed |-> confirmed]
    /\ UNCHANGED <<currentDate, requests, userRole, activeTab, showRequestModal,
                   showLoginModal, loginPassword, filters, tz, adminPanel, aiCalls, aiClient, mountedApp, nextRef, edits,
                   resolved>>

\* The Save Changes button of the edit modal.
EditModalSave ==
    /\ editingEvent # Null
    /\ \E formData \in EditForms(editingEvent) :
          handleUpdateEvent(EditFormSubmit(editingEvent, formData))

\* The X and Cancel buttons of the edit modal.
EditModalClose ==
    /\ editingEvent # Null
    /\ editingEvent' = Null
    /\ lastOp' = Other
    /\ UNCHANGED <<currentDate, events, requests, userRole, activeTab,
                   showRequestModal, showLoginModal, loginPassword, filters, tz, adminPanel, aiCalls, aiClient, mountedApp,
                   nextRef, edits, resolved>>

Submit == \E formData \in FormSamples : \E id \in generateId :
              handleSubmitRequest(formData, id)
Approve == \E i \in 1..Len(requests) : handleApproveRequest(requests[i])
Reject == \E i \in 1..Len(requests) : \E c \in BOOLEAN :
              handleRejectRequest(requests[i], c)
EventClick == \E i \in 1..Len(events) : handleEventClick(events[i])
Delete == \E c \in BOOLEAN : EditModalDelete(c)

-----------------------------------------------------------------------------
(* AI assistant: analyzeSchedule (src/index.tsx 152-186) and AdminPanel
   (src/index.tsx 711-728, 787-806) *)

\* eventData.slice(0, 50)
SnapshotLimit == 50

\* const eventData = events.map(e => ({title, date: e.start.toLocaleDateString(),
\* type: e.category, location: `Floor ${e.floor} - ${e.room}`}))
EventData(evs) ==
    [i \in 1..Len(evs) |->
        [title |-> evs[i].title,
         date |-> LocalCivil(evs[i].start),
         type |-> evs[i].category,
         location |-> <<"Floor", evs[i].floor, evs[i].room>>]]

\* (mutant) the whole of eventData goes into the prompt
Snapshot_Whole(evs) == EventData(evs)

\* The schedule data serialized into the prompt.
Snapshot(evs) == Slice(EventData(evs), 0, SnapshotLimit)

MissingKey == "Gemini API Key is missing. Please configure process.env.API_KEY in your deployment environment."
NoInsights == "No insights available."
Trouble == "I'm having trouble connecting to the AI service right now."

\* How ai.models.generateContent may end: a response with text, a response
\* without text, or a failure (rejection or throw).
AiOutcomes ==
    { [ok |-> TRUE, text |-> "Two inspections fall on Monday."],
      [ok |-> TRUE, text |-> ""],
      [ok |-> FALSE, text |-> ""] }

\* (mutant) analyzeSchedule lets the failure through to handleAiQuery's catch
analyzeSchedule_Rethrows(outcome) ==
    IF ~outcome.ok THEN "Failed to get response."
    ELSE IF outcome.text = "" THEN NoInsights
    ELSE outcome.text

\* What analyzeSchedule returns once generateContent has ended with `outcome`.
analyzeScheduleResult(outcome) ==
    IF ~outcome.ok THEN Trouble
    ELSE IF outcome.text = "" THEN NoInsights
    ELSE outcome.text

\* What an admin may have in the textarea.
AiQueries == {"", " ", "What is due next week?"}

\* String.prototype.trim on the texts of AiQueries
trim(q) == IF q = " " THEN "" ELSE q

\* In-flight calls followed at once.
MaxCalls == 2

\* textarea onChange={(e) => setAiQuery(e.target.value)}
setAiQuery ==
    /\ activeTab = "admin"
    /\ \E q \in AiQueries : adminPanel' = [adminPanel EXCEPT !.aiQuery = q]
    /\ lastOp' = Other
    /\ UNCHANGED <<currentDate, events, requests, userRole, activeTab,
                   showRequestModal, editingEvent, showLoginModal, loginPassword,
                   filters, tz, aiCalls, aiClient, mountedApp, nextRef, edits, resolved>>

\* The Analyze Schedule button (disabled={loading || !aiQuery}) and
\* handleAiQuery up to its await.  Without a client analyzeSchedule returns
\* the missing-key text with no call made; the handler then finishes before
\* any other event is handled.
handleAiQuery ==
    /\ activeTab = "admin"
    /\ ~(adminPanel.loading \/ adminPanel.aiQuery = "")
    /\ IF trim(adminPanel.aiQuery) = ""
       THEN UNCHANGED <<adminPanel, aiCalls>>
       ELSE IF ~aiClient
       THEN /\ adminPanel' = [adminPanel EXCEPT !.aiResponse = MissingKey,
                                                !.loading = FALSE]
            /\ UNCHANGED aiCalls
       ELSE /\ Len(aiCalls) < MaxCalls
            /\ adminPanel' = [adminPanel EXCEPT !.aiResponse = NoResponse,
                                                !.loading = TRUE]
            /\ aiCalls' = Append(aiCalls, [query |-> adminPanel.aiQuery,
                                           snapshot |-> Snapshot(events),
                                           mounted |-> TRUE])
    /\ lastOp' = [op |-> "analyze"]
    /\ UNCHANGED <<currentDate, events, requests, userRole, activeTab,
                   showRequestModal, editingEvent, showLoginModal, loginPassword,
                   filters, tz, aiClient, mountedApp, nextRef, edits, resolved>>

\* The i-th call in flight ends with `outcome`: handleAiQuery resumes after
\* its await.  State updates of a component that was unmounted meanwhile
\* are dropped by React.
AiSettle(i, outcome) ==
    /\ aiCalls' = SubSeq(aiCalls, 1, i - 1) \o SubSeq(aiCalls, i + 1, Len(aiCalls))
    /\ IF aiCalls[i].mounted
       THEN adminPanel' = [adminPanel EXCEPT
                              !.aiResponse = analyzeScheduleResult(outcome),
                              !.loading = FALSE]
       ELSE UNCHANGED adminPanel
    /\ lastOp' = [op |-> "settle", outcome |-> outcome,
                  mounted |-> aiCalls[i].mounted]
    /\ UNCHANGED <<currentDate, events, requests, userRole, activeTab,
                   showRequestModal, editingEvent, showLoginModal, loginPassword,
                   filters, tz, aiClient, mountedApp, nextRef, edits, resolved>>

AiResponse == \E i \in 1..Len(aiCalls) : \E outcome \in AiOutcomes : AiSettle(i, outcome)

-----------------------------------------------------------------------------
(* The second definition of App (src/index.tsx 1122-1155).  The file holds  *)
(* two programs one after the other, each declaring App and mounting it on  *)
(* the root element; which of the two a build mounts is not determined by   *)
(* the source.  The second App keeps currentDate, events, userRole and      *)
(* activeTab only, runs no init effect and has one button.                  *)

\* onClick={() => setUserRole(userRole === 'admin' ? 'viewer' : 'admin')}
toggleRole ==
    /\ mountedApp = 2
    /\ userRole' = IF userRole = "admin" THEN "viewer" ELSE "admin"
    /\ lastOp' = [op |-> "toggle"]
    /\ UNCHANGED <<currentDate, events, requests, activeTab, showRequestModal,
                   editingEvent, showLoginModal, loginPassword, filters, tz,
                   adminPanel, aiCalls, aiClient, mountedApp, nextRef, edits,
                   resolved>>

-----------------------------------------------------------------------------
(* Specifications *)

\* The seed events (by position in generateInitialData's result) that the
\* specifications keep in the event collection.
SeedKept == <<1>>

\* The App state at instant `now` with nothing opened or typed yet: the
\* useState initial values (src/index.tsx 819-835), for viewers on the
\* calendar tab, and no AdminPanel mounted.
AppMounted(now) ==
    /\ tz \in TimeZones
    /\ currentDate = now
    /\ requests = <<>>
    /\ userRole = "viewer"
    /\ activeTab = "calendar"
    /\ showRequestModal = FALSE
    /\ editingEvent = Null
    /\ showLoginModal = FALSE
    /\ loginPassword = ""
    /\ filters = DefaultFilters
    /\ edits = 0
    /\ lastOp = Other
    /\ adminPanel = PanelInit
    /\ aiCalls = <<>>

\* The state once the App is mounted and the init effect has run at instant
\* `now`, with the seed events `kept` in the collection.
Mounted(now, kept) ==
    /\ AppMounted(now)
    /\ \E drawn \in [1..Len(kept) -> generateId] :
          LET ids == [i \in 1..NumSeeds |->
                        IF \E k \in 1..Len(kept) : kept[k] = i
                        THEN drawn[CHOOSE k \in 1..Len(kept) : kept[k] = i]
                        ELSE "k3x9q0a1b"]
          IN  events = [k \in 1..Len(kept) |-> generateInitialData(now, ids)[kept[k]]]
    /\ nextRef = 0
    /\ resolved = {}
    /\ aiClient = TRUE
    /\ mountedApp = 1

\* The page is loaded on 2025-03-10 at 15:00 UTC.
Init == Mounted(ParseDateOnly(<<2025, 3, 10>>) + 15, SeedKept)

Next ==
    \/ openLoginModal \/ closeLoginModal \/ setLoginPassword \/ handleLogin
    \/ handleLogout \/ setActiveTab
    \/ openRequestModal \/ closeRequestModal
    \/ Submit \/ Approve \/ Reject
    \/ EventClick \/ EditModalSave \/ Delete \/ EditModalClose

Spec == Init /\ [][Next]_vars

\* The calendar view alone: the filter controls and the month navigation,
\* over a collection holding seed events of each category.
ViewKept == <<1, 83, 96>>

InitView == Mounted(ParseDateOnly(<<2025, 3, 10>>) + 15, ViewKept)

NextView ==
    \/ setFloorFilter \/ toggleMaintenance \/ toggleCleaning \/ toggleEvents
    \/ nextMonth \/ prevMonth

SpecView == InitView /\ [][NextView]_vars

\* The grid projection for every day the page may be loaded on.
InitGrid == \E now \in Clock : Mounted(now, SeedKept)

NextGrid == nextMonth \/ prevMonth \/ today

SpecGrid == InitGrid /\ [][NextGrid]_vars

\* The day cells with several events on one day.  Seed 37 is the Chiller
\* Inspection of Monday 2025-03-10; the requests of the form sample, once
\* approved, fall on the same day (UTC+10) or on the day before (UTC-5).
CellsKept == <<37>>

\* Requests approved before the cells are looked at.
MaxBucket == 6

\* The events that handleApproveRequest made of the requests submitted with
\* `formData`, ids[i] being the id of the i-th.
ApprovedRun(formData, ids) ==
    [i \in 1..Len(ids) |->
        ApprovedEvent(NewRequest(RequestFormSubmit(formData), formData.date, ids[i], i))]

\* The state after k requests were submitted and approved and the admin has
\* logged out again.
InitCells ==
    \E k \in 0..MaxBucket : \E ids \in [1..k -> generateId] :
    \E formData \in FormSamples : \E seedId \in generateId :
        /\ AppMounted(ParseDateOnly(<<2025, 3, 10>>) + 15)
        /\ events = <<generateInitialData(currentDate,
                           [i \in 1..NumSeeds |-> seedId])[CellsKept[1]]>>
                     \o ApprovedRun(formData, ids)
        /\ nextRef = k
        /\ resolved = {<<i, "approved">> : i \in 1..k}
        /\ aiClient = TRUE
        /\ mountedApp = 1

NextCells ==
    \/ setFloorFilter \/ toggleMaintenance \/ toggleCleaning \/ toggleEvents

SpecCells == InitCells /\ [][NextCells]_vars

\* The seed generator, for page loads in every kind of year (28 successive
\* years have each weekday of January 1 in a leap and in a common year).
SeedFirstYear == 2000
SeedNumYears == 28

\* The load instants followed: 02:00 and 15:00 UTC of January 1, July 1 and
\* December 31, which are days of the neighbouring year in some time zone.
SeedClock ==
    {DaysFromCivil(y, md[1], md[2]) * 24 + h :
        y \in SeedFirstYear..(SeedFirstYear + SeedNumYears - 1),
        md \in {<<1, 1>>, <<7, 1>>, <<12, 31>>},
        h \in {2, 15}}

\* The id sequences followed for a whole seed collection: generateId's
\* draws alternate between two values (equal or not).
SeedIdDraws ==
    {[i \in 1..NumSeeds |-> IF i % 2 = 1 THEN a ELSE b] :
        a \in generateId, b \in generateId}

\* The first render: useState initial values, events still [].
FirstRender(now) ==
    /\ AppMounted(now)
    /\ events = <<>>
    /\ nextRef = 0
    /\ resolved = {}
    /\ aiClient = TRUE
    /\ mountedApp = 1

\* useEffect(() => { setEvents(generateInitialData()) }, []): runs once,
\* after the first render and before any handler.
InitEffect ==
    /\ events = <<>> /\ lastOp = Other
    /\ \E ids \in SeedIdDraws : events' = generateInitialData(currentDate, ids)
    /\ lastOp' = [op |-> "init"]
    /\ UNCHANGED <<currentDate, requests, userRole, activeTab, showRequestModal,
                   editingEvent, showLoginModal, loginPassword, filters, tz,
                   adminPanel, aiCalls, aiClient, mountedApp, nextRef, edits, resolved>>

InitSeed == \E now \in SeedClock : FirstRender(now)

NextSeed == InitEffect

SpecSeed == InitSeed /\ [][NextSeed]_vars

\* The AI assistant of the dashboard, with the login and the tabs.  The
\* collection is the seed collection or what deleting from its end has left
\* of it.
AiCollectionSizes == {3, SnapshotLimit, SnapshotLimit + 1, NumSeeds}

InitAI ==
    \E ids \in SeedIdDraws : \E n \in AiCollectionSizes :
        /\ AppMounted(ParseDateOnly(<<2025, 3, 10>>) + 15)
        /\ events = SubSeq(generateInitialData(currentDate, ids), 1, n)
        /\ nextRef = 0
        /\ resolved = {}
        /\ aiClient \in BOOLEAN
        /\ mountedApp = 1

NextAI ==
    \/ openLoginModal \/ closeLoginModal \/ setLoginPassword \/ handleLogin
    \/ handleLogout \/ setActiveTab
    \/ setAiQuery \/ handleAiQuery \/ AiResponse

SpecAI == InitAI /\ [][NextAI]_vars

\* The same with every call in flight ending sooner or later: the promise of
\* generateContent is resolved or rejected by the service.
SpecAIFair == SpecAI /\ WF_vars(AiResponse)

\* The second App once mounted at instant `now`: its useState initial values
\* (src/index.tsx 1123-1126); the state it does not have is held at the
\* first App's initial values.
SecondAppMounted(now) ==
    /\ AppMounted(now)
    /\ events = <<>>
    /\ nextRef = 0
    /\ resolved = {}
    /\ aiClient = TRUE
    /\ mountedApp = 2

\* The session role under either definition of App: the login modal and
\* logout of the first, the header button of the second.
InitRole ==
    \E now \in Clock : Mounted(now, SeedKept) \/ SecondAppMounted(now)

FirstAppLogin ==
    /\ mountedApp = 1
    /\ \/ openLoginModal \/ closeLoginModal \/ setLoginPassword
       \/ handleLogin \/ handleLogout

NextRole == FirstAppLogin \/ toggleRole

SpecRole == InitRole /\ [][NextRole]_vars

-----------------------------------------------------------------------------
(* Properties *)

Last(s) == s[Len(s)]
IdCount(s, id) == Cardinality({i \in 1..Len(s) : s[i].id = id})

\* C1: for a pending request r, after approve(r) no pending request has r's
\* id, and the event collection is the old one plus exactly one event, which
\* has r's id.
C1_ApproveMovesRequest ==
    [][lastOp'.op = "approve" =>
         LET r == lastOp'.req
         IN  /\ r \in Range(requests)
             /\ \A i \in 1..Len(requests') : requests'[i].id # r.id
             /\ Len(events') = Len(events) + 1
             /\ SubSeq(events', 1, Len(events)) = events
             /\ Last(events').id = r.id
             /\ IdCount(events', r.id) = IdCount(events, r.id) + 1]_vars

\* C1 witness: a request was approved while another one stays pending.
C1_Witness ==
    /\ lastOp.op = "approve"
    /\ requests # <<>>
    /\ Last(events).id = lastOp.req.id
    /\ \A i \in 1..Len(requests) : requests[i].id # lastOp.req.id

\* C2: for a pending request r, after a confirmed reject(r) no pending
\* request has r's id, the event collection is the same sequence as before,
\* and nothing of the decision is kept: the pending collection is the old
\* one without r's id, every request in it still "pending", and no other
\* part of the App state changes.
C2_RejectDiscards ==
    [][(lastOp'.op = "reject" /\ lastOp'.confirmed) =>
         LET r == lastOp'.req
             others(q) == q.id # r.id
         IN  /\ r \in Range(requests)
             /\ \A i \in 1..Len(requests') : requests'[i].id # r.id
             /\ events' = events
             /\ requests' = SelectSeq(requests, others)
             /\ \A i \in 1..Len(requests') : requests'[i].status = "pending"
             /\ UNCHANGED <<currentDate, userRole, activeTab, showRequestModal,
                            editingEvent, showLoginModal, loginPassword,
                            filters>>]_vars

\* C2 witness: a request was rejected, with events in the collection.
C2_Witness ==
    /\ lastOp.op = "reject" /\ lastOp.confirmed
    /\ lastOp.req \notin Range(requests)
    /\ Len(events) >= 2

\* C3: the event approve(r) creates has r's id, title, category, floor, room
\* and description, starts and ends at r's date, and is put after every
\* event that was in the collection.
C3_ApprovedEventFields ==
    [][lastOp'.op = "approve" =>
         LET r == lastOp'.req
             e == Last(events')
         IN  /\ events' = Append(events, e)
             /\ e.id = r.id /\ e.title = r.title /\ e.category = r.category
             /\ e.floor = r.floor /\ e.room = r.room
             /\ e.description = r.description
             /\ e.start = r.date /\ e.end = r.date]_vars

\* C3 witness: the "Fix AC" request of the specification was approved.
C3_Witness ==
    /\ lastOp.op = "approve"
    /\ Len(events) >= 2
    /\ Last(events).title = "Fix AC" /\ Last(events).floor = 3
    /\ Last(events).room = "Offices" /\ Last(events).category = "Maintenance"
    /\ Last(events).start = lastOp.req.date

\* C4: a request submitted for calendar date D and then approved gives an
\* event that starts at local midnight of D, whose local start date is D,
\* and which the grid of D's month shows in the cell of D and in no other.
C4_ApprovedOnTypedDate ==
    lastOp.op = "approve" =>
        LET D == lastOp.req.typed
            e == Last(events)
            midnight == LocalDate(D[1], D[2] - 1, D[3], 0)
            grid == days(midnight)
        IN  /\ e.start = midnight
            /\ LocalCivil(e.start) = D
            /\ \A i \in 1..Len(grid) :
                   (e \in Range(dayEvents(events, DefaultFilters, grid[i])))
                       <=> (LocalCivil(grid[i]) = D)

\* C5: submit(data) puts one new request in front of the pending collection,
\* "pending", with the submitted fields and an id that no pending request
\* has; the requests pending before follow in their order, and the event
\* collection is unchanged.
C5_SubmitFreshRequest ==
    [][lastOp'.op = "submit" =>
         LET n == Head(requests')
         IN  /\ Len(requests') = Len(requests) + 1
             /\ Tail(requests') = requests
             /\ n.status = "pending"
             /\ \A i \in 1..Len(requests) : requests[i].id # n.id
             /\ \E f \in FormSamples :
                   /\ n.title = f.title /\ n.category = f.category
                   /\ n.floor = f.floor /\ n.room = f.room
                   /\ n.description = f.description
                   /\ ISODate(n.date) = f.date
             /\ events' = events]_vars

\* C6: approval and rejection are terminal: a request that was approved or
\* rejected is not in the pending collection in any later state, and no
\* approve or (confirmed) reject acts on a request decided before.
C6_DecisionsTerminal ==
    /\ [](\A i \in 1..Len(requests) :
             \A d \in {"approved", "rejected"} : <<requests[i].ref, d>> \notin resolved)
    /\ [][(lastOp'.op = "approve" \/ (lastOp'.op = "reject" /\ lastOp'.confirmed)) =>
             \A d \in {"approved", "rejected"} : <<lastOp'.req.ref, d>> \notin resolved]_vars

\* C6 witness: after a decision, a new request is pending under the id of an
\* approved one.
C6_Witness ==
    /\ resolved # {}
    /\ requests # <<>>
    /\ \E i \in 1..Len(events) : events[i].id = requests[1].id /\ ~events[i].isRecurring

\* C7: approve is atomic: in no state is a request both approved and still
\* pending, and a step adds an event for a request exactly when it takes
\* that request out of the pending collection.
C7_ApproveAtomic ==
    /\ [](\A i \in 1..Len(requests) : <<requests[i].ref, "approved">> \notin resolved)
    /\ [][LET gone == {r \in Range(requests) : r \notin Range(requests')}
              now  == {r \in Range(requests) :
                          <<r.ref, "approved">> \in resolved' \ resolved}
          IN  /\ now # {} =>
                    /\ now \subseteq gone
                    /\ Len(events') = Len(events) + 1
                    /\ \E r \in now : Last(events').id = r.id
              /\ Len(events') > Len(events) => (now # {} /\ now \subseteq gone)]_vars

\* C7 witness: the last pending request was approved: its event is there and
\* the pending collection is empty.
C7_Witness ==
    /\ lastOp.op = "approve"
    /\ requests = <<>>
    /\ \E i \in 1..Len(events) : events[i].id = lastOp.req.id
    /\ <<lastOp.req.ref, "approved">> \in resolved

\* C8: a declined confirmation (delete event, reject request) changes
\* nothing of the App state; events or requests go only when it is accepted.
C8_DeclineChangesNothing ==
    [][/\ (lastOp'.op \in {"reject", "delete"} /\ ~lastOp'.confirmed) =>
             UNCHANGED <<currentDate, events, requests, userRole, activeTab,
                         showRequestModal, editingEvent, showLoginModal,
                         loginPassword, filters>>
       /\ (lastOp'.op = "reject" /\ requests' # requests) => lastOp'.confirmed
       /\ (lastOp'.op = "delete" /\ events' # events) => lastOp'.confirmed]_vars

\* C8 witness: a rejection was declined and the request is still pending,
\* a deletion having been declined before with the modal still open.
C8_Witness ==
    /\ lastOp.op = "reject" /\ ~lastOp.confirmed
    /\ lastOp.req \in Range(requests)
    /\ editingEvent # Null

\* C9: an event is visible iff the show-flag of its category is on and the
\* floor filter is unset or equal to the event's floor.
C9_VisibleIff ==
    LET flag(cat) == IF cat = "Maintenance" THEN filters.showMaintenance
                     ELSE IF cat = "Cleaning" THEN filters.showCleaning
                     ELSE filters.showEvents
        shown(e) == flag(e.category) /\ (filters.floor = NoFloor \/ e.floor = filters.floor)
    IN  /\ \A cat \in Categories : \A fl \in Floors :
               isVisible([category |-> cat, floor |-> fl], filters)
                   <=> shown([category |-> cat, floor |-> fl])
        /\ filteredEvents(events, filters) = SelectSeq(events, shown)

\* C9 witness: with Cleaning hidden and floor 2 selected, the floor-2 cleaning
\* event is hidden by its category and the floor-1 maintenance event by its
\* floor, while the event of floor 6 would show without the floor filter.
C9_Witness ==
    /\ ~filters.showCleaning /\ filters.showMaintenance /\ filters.floor = 2
    /\ filteredEvents(events, filters) = <<>>
    /\ Len(filteredEvents(events, [filters EXCEPT !.floor = NoFloor])) = 2

\* C10: the grid of the reference date is a run of consecutive days, a
\* multiple of 7 long, from a Sunday on or before the 1st of the month to a
\* Saturday on or after its last day; every day of the month is in it once.
C10_GridWeeks ==
    LET g     == days(currentDate)
        n     == Len(g)
        c     == LocalCivil(currentDate)
        first == DaysFromCivil(c[1], c[2], 1)
        last  == (IF c[2] = 12 THEN DaysFromCivil(c[1] + 1, 1, 1)
                  ELSE DaysFromCivil(c[1], c[2] + 1, 1)) - 1
        dayOf(i) == (g[i] + tz) \div 24
    IN  /\ n > 0 /\ n % 7 = 0
        /\ \A i \in 1..n : g[i] = (dayOf(1) + i - 1) * 24 - tz
        /\ (dayOf(1) + 4) % 7 = 0 /\ dayOf(1) <= first
        /\ (dayOf(n) + 4) % 7 = 6 /\ dayOf(n) >= last
        /\ \A d \in first..last : Cardinality({i \in 1..n : dayOf(i) = d}) = 1

\* C10 witness: the 31st of a month whose grid takes six weeks.
C10_Witness ==
    /\ getDate(currentDate) = 31
    /\ Len(days(currentDate)) = 42

\* The elements of s at the positions idx, in increasing position.
Pick(s, idx) ==
    [k \in 1..Cardinality(idx) |->
        s[CHOOSE i \in idx : Cardinality({j \in idx : j < i}) = k - 1]]

\* The filter rule of the specification, for the filter state f.
Shown(e, f) ==
    /\ e.category = "Maintenance" => f.showMaintenance
    /\ e.category = "Cleaning" => f.showCleaning
    /\ e.category = "Event" => f.showEvents
    /\ f.floor = NoFloor \/ e.floor = f.floor

C12_ProjectionIdempotent ==
    /\ [](LET grid == Grid(currentDate, filters, events)
              c == LocalCivil(currentDate)
          IN  /\ grid = Grid(MidnightOf(DaysFromCivil(c[1], c[2], 1)), filters, events)
              /\ \A i \in 1..Len(grid) : Range(grid[i].bucket) \subseteq Range(events))
    /\ [][UNCHANGED <<events, requests, filters>>]_vars

\* C12 witness: the grid is projected for the 20th of the month in which the
\* seed event falls, which one of its buckets holds.
C12_Witness ==
    /\ getDate(currentDate) = 20
    /\ \E i \in 1..Len(Grid(currentDate, filters, events)) :
          Grid(currentDate, filters, events)[i].bucket = events

\* C13: a day cell whose bucket has n events shows the first min(n, 4) of
\* them in bucket order and, iff n > 4, the remainder line with the count
\* n - 4; the events shown and the remainder add up to n.
C13_CellTruncation ==
    \A d \in Range(days(currentDate)) :
        LET bucket == dayEvents(events, filters, d)
            n      == Len(bucket)
            cell   == CellView(bucket)
            k      == IF n < 4 THEN n ELSE 4
            rest   == IF cell.hasMore THEN cell.more ELSE 0
        IN  /\ cell.shown = SubSeq(bucket, 1, k)
            /\ cell.hasMore <=> n > 4
            /\ cell.hasMore => cell.more = n - 4
            /\ Len(cell.shown) + rest = n

\* C13 witness: one cell holds exactly four events and shows them all with
\* no remainder line, while without the floor filter a cell holds five, of
\* which four are shown and one is counted.
C13_Witness ==
    /\ filters.floor = 3
    /\ \E d \in Range(days(currentDate)) :
          /\ Len(dayEvents(events, filters, d)) = 4
          /\ ~CellView(dayEvents(events, filters, d)).hasMore
    /\ \E d \in Range(days(currentDate)) :
          LET all == CellView(dayEvents(events, DefaultFilters, d))
          IN  all.hasMore /\ all.more = 1 /\ Len(all.shown) = 4

\* The positions of the events titled `title`.
Titled(evs, title) == {i \in 1..Len(evs) : evs[i].title = title}

\* C14: in every year the seed collection has exactly 52 'Chiller
\* Inspection' events, the i-th (i = 0..51) dated January 1 of the current
\* year plus i weeks: offsets from a year start that the loop leaves alone.
C14_ChillerWeeklyFromJan1 ==
    lastOp.op = "init" =>
        LET chillers == Pick(events, Titled(events, "Chiller Inspection"))
            jan1 == DaysFromCivil(getFullYear(currentDate), 1, 1)
        IN  /\ Len(chillers) = 52
            /\ \A i \in 0..51 : LocalDay(chillers[i + 1].start) = jan1 + 7 * i

\* C15: every event of the seed collection starts within the current
\* calendar year.
C15_SeedsWithinYear ==
    lastOp.op = "init" =>
        \A i \in 1..Len(events) :
            getFullYear(events[i].start) = getFullYear(currentDate)

\* C16: for every current year Y the seed collection has exactly two events
\* titled 'Backflow Inspection', one starting on Y-01-15 and one on Y-07-15,
\* both of category Maintenance, floor 1, room 'Garage/Main Line'.
C16_BackflowTwiceAYear ==
    lastOp.op = "init" =>
        LET Y == getFullYear(currentDate)
            backflow == Pick(events, Titled(events, "Backflow Inspection"))
        IN  /\ Len(backflow) = 2
            /\ {LocalCivil(backflow[i].start) : i \in 1..Len(backflow)}
                   = {<<Y, 1, 15>>, <<Y, 7, 15>>}
            /\ \A i \in 1..Len(backflow) :
                   /\ backflow[i].category = "Maintenance"
                   /\ backflow[i].floor = 1
                   /\ backflow[i].room = "Garage/Main Line"

\* C16 witness: the seed collection generated on a day of 2025 holds a
\* Backflow Inspection on 2025-01-15 and one on 2025-07-15.
C16_Witness ==
    /\ lastOp.op = "init"
    /\ getFullYear(currentDate) = 2025
    /\ Len(events) = NumSeeds
    /\ \E i, j \in Titled(events, "Backflow Inspection") :
          /\ LocalCivil(events[i].start) = <<2025, 1, 15>>
          /\ LocalCivil(events[j].start) = <<2025, 7, 15>>

\* C17: event ids are unique: no two events of the collection share an id,
\* in the seed collection and after any sequence of actions.
C17_EventIdsUnique ==
    \A i, j \in 1..Len(events) : i # j => events[i].id # events[j].id

\* C18: in every reachable state every event of the collection, seeded,
\* approved or edited, has start <= end (and so has the event being edited).
C18_StartNotAfterEnd ==
    /\ \A i \in 1..Len(events) : events[i].start <= events[i].end
    /\ editingEvent # Null => editingEvent.start <= editingEvent.end

\* C18 witness: after an edit was saved the collection holds a seed event
\* (9 to 10 AM), an approved event (start = end) and the edited event.
C18_Witness ==
    /\ lastOp.op = "save"
    /\ \E i \in 1..Len(events) : events[i] = lastOp.ev /\ events[i].start < events[i].end
    /\ \E i \in 1..Len(events) : ~events[i].isRecurring /\ events[i].start = events[i].end
    /\ \E i \in 1..Len(events) :
          /\ events[i].isRecurring /\ events[i] # lastOp.ev
          /\ events[i].end = events[i].start + 1

\* C19: at most one call to the AI service is in flight at any time, under
\* any interleaving of typing, Analyze clicks, tab switches, logout and login.
C19_OneCallInFlight == Len(aiCalls) <= 1

\* C20: the snapshot handed to the AI service holds the first min(50, n)
\* events of the n-event collection, in collection order, each reduced to
\* title, date, category and location; it never has more than 50 entries,
\* and building it leaves the event collection unchanged.
C20_SnapshotFirstFifty ==
    [][Len(aiCalls') > Len(aiCalls) =>
         LET snap == Last(aiCalls').snapshot
             n    == Len(events)
             k    == IF n < 50 THEN n ELSE 50
         IN  /\ Len(snap) = k /\ Len(snap) <= 50
             /\ \A i \in 1..k :
                    /\ DOMAIN snap[i] = {"title", "date", "type", "location"}
                    /\ snap[i].title = events[i].title
                    /\ snap[i].date = CivilFromDays((events[i].start + tz) \div 24)
                    /\ snap[i].type = events[i].category
                    /\ snap[i].location = <<"Floor", events[i].floor, events[i].room>>
             /\ events' = events]_vars

\* C20 witness: a call is in flight with a snapshot of 50 entries taken from
\* the collection of 106 seed events.
C20_Witness ==
    /\ lastOp.op = "analyze"
    /\ Len(events) = NumSeeds
    /\ aiCalls # <<>>
    /\ Len(Last(aiCalls).snapshot) = 50
    /\ Last(aiCalls).snapshot[50].title = events[50].title


\* C21: an AI query leaves the event and pending collections as they are;
\* without a credential it answers with the missing-key text and starts no
\* external call; a query starts at most one call and the end of a call
\* starts none (no retry); a call that fails is answered on the mounted
\* panel with the trouble-connecting text and ends the loading phase.
C21_AiQueryContained ==
    [][lastOp'.op \in {"analyze", "settle"} =>
         /\ events' = events
         /\ requests' = requests
         /\ (lastOp'.op = "analyze" /\ ~aiClient) =>
                /\ aiCalls' = aiCalls
                /\ trim(adminPanel.aiQuery) # "" =>
                       /\ adminPanel'.aiResponse = MissingKey
                       /\ ~adminPanel'.loading
         /\ lastOp'.op = "analyze" =>
                /\ Len(aiCalls') <= Len(aiCalls) + 1
                /\ SubSeq(aiCalls', 1, Len(aiCalls)) = aiCalls
         /\ lastOp'.op = "settle" => Len(aiCalls') = Len(aiCalls) - 1
         /\ (lastOp'.op = "settle" /\ lastOp'.mounted /\ ~lastOp'.outcome.ok) =>
                /\ adminPanel'.aiResponse = Trouble
                /\ ~adminPanel'.loading
    ]_vars

\* C21 witness: a call has failed and the panel shows the trouble-connecting
\* text with the collections still in place.
C21_Witness ==
    /\ lastOp.op = "settle"
    /\ lastOp.mounted
    /\ ~lastOp.outcome.ok
    /\ adminPanel.aiResponse = Trouble
    /\ ~adminPanel.loading
    /\ Len(events) > 0


\* C22: the role goes from viewer to admin only in a login step whose
\* submitted passphrase is the shared one; a login with another passphrase
\* leaves the role viewer, the modal open and the rest of the App state as
\* it was (nothing counts the failures); no other step raises the role.
C22_AdminOnlyByPassphrase ==
    [][/\ (userRole = "viewer" /\ userRole' = "admin") =>
              /\ lastOp'.op = "login"
              /\ lastOp'.password = "admin123"
       /\ (lastOp'.op = "login" /\ lastOp'.password # "admin123") =>
              /\ userRole' = userRole
              /\ showLoginModal'
              /\ UNCHANGED appVars
    ]_vars


\* C23: whenever the panel is loading, it later is not loading and shows a
\* non-empty response text; and a query that is empty or whitespace-only
\* starts no call and leaves loading false.
C23_LoadingEnds ==
    /\ adminPanel.loading ~>
           (/\ ~adminPanel.loading
            /\ adminPanel.aiResponse # NoResponse
            /\ adminPanel.aiResponse # "")
    /\ [][(lastOp'.op = "analyze" /\ trim(adminPanel.aiQuery) = "") =>
              /\ aiCalls' = aiCalls
              /\ ~adminPanel'.loading
       ]_vars


\* C24: in every state of the App the dashboard tab is active only for an
\* admin and the edit modal is open only for an admin; logout leaves a
\* viewer on the calendar tab with the edit modal closed; and approve,
\* reject, save and delete run only while the role is admin.
C24_AdminOnlySurfaces ==
    /\ [](/\ activeTab = "admin" => userRole = "admin"
          /\ editingEvent # Null => userRole = "admin")
    /\ [][/\ lastOp'.op = "logout" =>
                 /\ userRole' = "viewer"
                 /\ activeTab' = "calendar"
                 /\ editingEvent' = Null
          /\ lastOp'.op \in {"approve", "reject", "save", "delete"} =>
                 userRole = "admin"
       ]_vars

\* C24 witness: an admin who had decided a request has logged out and is
\* back on the calendar tab as a viewer.
C24_Witness ==
    /\ lastOp.op = "logout"
    /\ resolved # {}
    /\ userRole = "viewer"
    /\ activeTab = "calendar"
    /\ editingEvent = Null


\* C25: saving an edit of the event e open in the modal puts the saved event,
\* which has e's id, at every position that held e's id and leaves the length
\* and every other element as they were; a confirmed delete of e leaves
\* exactly the elements with other ids, in their order; both leave the
\* pending collection as it was and close the edit modal.
C25_EditDeleteFrame ==
    [][/\ lastOp'.op = "save" =>
              LET e == editingEvent
                  u == lastOp'.ev
              IN  /\ u.id = e.id
                  /\ \E i \in 1..Len(events) : events[i].id = e.id
                  /\ Len(events') = Len(events)
                  /\ \A i \in 1..Len(events) :
                        events'[i] = IF events[i].id = e.id THEN u ELSE events[i]
                  /\ requests' = requests
                  /\ editingEvent' = Null
       /\ (lastOp'.op = "delete" /\ lastOp'.confirmed) =>
              LET e == editingEvent
                  others == {i \in 1..Len(events) : events[i].id # e.id}
                  nth(j) == CHOOSE i \in others :
                                Cardinality({k \in others : k <= i}) = j
              IN  /\ Len(events') = Cardinality(others)
                  /\ \A j \in 1..Len(events') : events'[j] = events[nth(j)]
                  /\ requests' = requests
                  /\ editingEvent' = Null
    ]_vars

\* C25 witness: an edit was saved into a collection of several events, of
\* which one with another id is still there, and the modal is closed.
C25_Witness ==
    /\ lastOp.op = "save"
    /\ Len(events) >= 2
    /\ \E i \in 1..Len(events) : events[i].id # lastOp.ev.id
    /\ events[Len(events)] = lastOp.ev
    /\ editingEvent = Null


\* C26: saving the edit form of an event with no field changed leaves the
\* event's title, category, floor and room as they were and its start on the
\* same local calendar date, whatever the UTC offset of the time zone.
C26_EditRoundTrip ==
    [][(/\ lastOp'.op = "save"
        /\ lastOp'.ev = EditFormSubmit(editingEvent, EditFormData(editingEvent))) =>
           LET e == editingEvent
               u == lastOp'.ev
           IN  /\ u.title = e.title
               /\ u.category = e.category
               /\ u.floor = e.floor
               /\ u.room = e.room
               /\ LocalDay(u.start) = LocalDay(e.start)
    ]_vars


\* C27: from every reference date, of month m of year y, nextMonth gives a
\* date of month m+1 (January of y+1 after December) and prevMonth a date
\* of month m-1 (December of y-1 before January); nextMonth then prevMonth,
\* and prevMonth then nextMonth, give the month and the grid days of the
\* reference date; and no step of the calendar navigation changes events,
\* requests or filters.
C27_MonthNavigation ==
    /\ [](LET y == getFullYear(currentDate)
              m == getMonth(currentDate)
              n == NextMonthDate(currentDate)
              p == PrevMonthDate(currentDate)
          IN  /\ getMonth(n) = (m + 1) % 12
              /\ getFullYear(n) = IF m = 11 THEN y + 1 ELSE y
              /\ getMonth(p) = (m + 11) % 12
              /\ getFullYear(p) = IF m = 0 THEN y - 1 ELSE y
              /\ getMonth(PrevMonthDate(n)) = m
              /\ getFullYear(PrevMonthDate(n)) = y
              /\ days(PrevMonthDate(n)) = days(currentDate)
              /\ getMonth(NextMonthDate(p)) = m
              /\ getFullYear(NextMonthDate(p)) = y
              /\ days(NextMonthDate(p)) = days(currentDate))
    /\ [][UNCHANGED <<events, requests, filters, lastOp>>]_vars

\* C27 witness: the navigation has crossed a year end and shows January of
\* the second year from local midnight of its first day.
C27_Witness ==
    /\ getFullYear(currentDate) = FirstYear + 1
    /\ getMonth(currentDate) = 0
    /\ getDate(currentDate) = 1
    /\ LocalHour(currentDate) = 0
    /\ Len(events) > 0

=============================================================================
